---- MODULE Spec2Model ----
(***************************************************************************)
(* Quake 3 map checker (quake3_map_checker.py): the script that reads a    *)
(* map .pk3, extracts the asset references of its BSP and shader scripts,  *)
(* and classifies each reference against the map, demo, patch and full     *)
(* archives.                                                               *)
(*                                                                         *)
(* The map archive is taken to be on disk (the download of MAP_URL is not  *)
(* modelled) and to open as a zip archive.                                 *)
(*                                                                         *)
(* Strings and byte strings are sequences of one-character strings, so     *)
(* that lower(), startswith(), endswith(), split() and the regular         *)
(* expressions are computed character by character.                        *)
(***************************************************************************)
EXTENDS Integers, Sequences, FiniteSets, TLC

\* ------------------------------------------------------------ characters

\* Bytes that are not printable ASCII letters of the model's alphabet.
NUL == "<00>"
TAB == "<09>"
LF  == "<0A>"
XE9 == "<E9>"
BQ  == "<60>"

\* The printable ASCII characters, code points 32 .. 126, in order.
ASCII ==
    <<" ", "!", "\"", "#", "$", "%", "&", "'", "(", ")", "*", "+", ",", "-",
      ".", "/", "0", "1", "2", "3", "4", "5", "6", "7", "8", "9", ":", ";",
      "<", "=", ">", "?", "@", "A", "B", "C", "D", "E", "F", "G", "H", "I",
      "J", "K", "L", "M", "N", "O", "P", "Q", "R", "S", "T", "U", "V", "W",
      "X", "Y", "Z", "[", "\\", "]", "^", "_", BQ, "a", "b", "c", "d", "e",
      "f", "g", "h", "i", "j", "k", "l", "m", "n", "o", "p", "q", "r", "s",
      "t", "u", "v", "w", "x", "y", "z", "{", "|", "}", "~">>

\* The code point of each character of the alphabet.
OrdTable ==
    [c \in {ASCII[i] : i \in 1..Len(ASCII)} \cup {NUL, TAB, LF, XE9} |->
        CASE c = NUL -> 0
          [] c = TAB -> 9
          [] c = LF  -> 10
          [] c = XE9 -> 233
          [] OTHER   -> 31 + (CHOOSE i \in 1..Len(ASCII) : ASCII[i] = c)]

\* ord() and chr()
Ord(c) == OrdTable[c]
Chr(n) == ASCII[n - 31]

\* str.lower() on each character: A-Z map to a-z, everything else is kept.
LowerTable ==
    [c \in DOMAIN OrdTable |->
        IF OrdTable[c] >= 65 /\ OrdTable[c] <= 90 THEN Chr(OrdTable[c] + 32) ELSE c]

Lower(c) == LowerTable[c]

\* str.lower()
LowerStr(s) == [i \in 1..Len(s) |-> Lower(s[i])]

\* str.startswith / str.endswith
StartsWith(s, p) == Len(p) <= Len(s) /\ SubSeq(s, 1, Len(p)) = p
EndsWith(s, p) == Len(p) <= Len(s) /\ SubSeq(s, Len(s) - Len(p) + 1, Len(s)) = p

\* Python's < on str: lexicographic by code point, a proper prefix first.
RECURSIVE StrLess(_, _)
StrLess(a, b) ==
    IF b = <<>> THEN FALSE
    ELSE IF a = <<>> THEN TRUE
    ELSE IF a[1] # b[1] THEN Ord(a[1]) < Ord(b[1])
    ELSE StrLess(Tail(a), Tail(b))

\* sorted(S) for a set of strings.
RECURSIVE Sorted(_)
Sorted(S) ==
    IF S = {} THEN <<>>
    ELSE LET m == CHOOSE x \in S : \A y \in S \ {x} : StrLess(x, y)
         IN <<m>> \o Sorted(S \ {m})

\* The set of the elements of a sequence.
Range(q) == {q[i] : i \in 1..Len(q)}

\* str.split(sep) for a one-character separator.
RECURSIVE Split(_, _)
Split(s, sep) ==
    LET idx == {i \in 1..Len(s) : s[i] = sep}
    IN IF idx = {} THEN <<s>>
       ELSE LET i == CHOOSE j \in idx : \A k \in idx : j <= k
            IN <<SubSeq(s, 1, i - 1)>> \o Split(SubSeq(s, i + 1, Len(s)), sep)

\* os.path.basename (posix): what follows the last "/".
Basename(s) == LET parts == Split(s, "/") IN parts[Len(parts)]

\* ------------------------------------------------- the script's literals

S_textures_common == <<"t", "e", "x", "t", "u", "r", "e", "s", "/", "c", "o", "m", "m", "o", "n", "/">>
S_radiant_notex == <<"t", "e", "x", "t", "u", "r", "e", "s", "/", "r", "a", "d", "i", "a", "n", "t", "/", "n", "o", "t", "e", "x">>
S_noshader == <<"n", "o", "s", "h", "a", "d", "e", "r">>
S_shadernotfound == <<"s", "h", "a", "d", "e", "r", "n", "o", "t", "f", "o", "u", "n", "d">>
S_lightmap == <<"$", "l", "i", "g", "h", "t", "m", "a", "p">>
S_whiteimage == <<"$", "w", "h", "i", "t", "e", "i", "m", "a", "g", "e">>
S_flareshader == <<"f", "l", "a", "r", "e", "s", "h", "a", "d", "e", "r">>
S_tga == <<".", "t", "g", "a">>
S_jpg == <<".", "j", "p", "g">>
S_IBSP == <<"I", "B", "S", "P">>
S_maps == <<"m", "a", "p", "s", "/">>
S_bsp == <<".", "b", "s", "p">>
S_scripts == <<"s", "c", "r", "i", "p", "t", "s", "/">>
S_shader == <<".", "s", "h", "a", "d", "e", "r">>
S_textures == <<"t", "e", "x", "t", "u", "r", "e", "s", "/">>
S_models == <<"m", "o", "d", "e", "l", "s", "/">>
S_sound == <<"s", "o", "u", "n", "d", "/">>
S_model == <<"m", "o", "d", "e", "l">>
S_model2 == <<"m", "o", "d", "e", "l", "2">>
S_noise == <<"n", "o", "i", "s", "e">>
S_qer_editorImage == <<"q", "e", "r", "_", "e", "d", "i", "t", "o", "r", "I", "m", "a", "g", "e">>
S_map == <<"m", "a", "p">>
S_clampMap == <<"c", "l", "a", "m", "p", "M", "a", "p">>
S_animMap == <<"a", "n", "i", "m", "M", "a", "p">>

\* POINT_PAKS: baseq3/pak1.pk3 .. baseq3/pak7.pk3
NumPointPaks == 7

\* Files to ignore entirely
IGNORE_PATHS == <<S_textures_common, S_radiant_notex>>

\* Terms to ignore entirely
IGNORE_TERMS == {S_noshader, S_shadernotfound, S_lightmap, S_whiteimage, S_flareshader}

\* A texture record of the BSP is 72 bytes, the first 64 of them its name.
TexRecSize == 72
TexNameSize == 64

\* ------------------------------------------------------- pure functions

\* An archive that is not on disk.
Absent == [exists |-> FALSE, namelist |-> <<>>]
Archive(names) == [exists |-> TRUE, namelist |-> names]

\* load_zip_list: the lower-cased names of an archive, the empty set when
\* the file does not exist.
load_zip_list(ar) ==
    IF ar.exists THEN {LowerStr(ar.namelist[i]) : i \in 1..Len(ar.namelist)}
    ELSE {}

\* should_ignore comparing the dependency as extracted, not lower-cased.
should_ignore_keepcase(dep) ==
    \E i \in 1..Len(IGNORE_PATHS) : StartsWith(dep, IGNORE_PATHS[i])

should_ignore(dep) ==
    LET low == LowerStr(dep)
    IN \E i \in 1..Len(IGNORE_PATHS) : StartsWith(low, IGNORE_PATHS[i])

\* The result of find_in_set: None, or the candidate found.
None == [some |-> FALSE, val |-> <<>>]
Some(c) == [some |-> TRUE, val |-> c]

\* bool(x) of a find_in_set result: None and the empty string are false.
Truthy(r) == r.some /\ r.val # <<>>

\* The candidates find_in_set tries, in order, for the lower-cased low.
CandidatesOf(low) ==
    LET name == Basename(low)
    IN IF "." \notin Range(name) THEN <<low \o S_tga, low \o S_jpg, low>>
       ELSE IF EndsWith(low, S_tga)
            THEN <<low, SubSeq(low, 1, Len(low) - 4) \o S_jpg>>
       ELSE IF EndsWith(low, S_jpg)
            THEN <<low, SubSeq(low, 1, Len(low) - 4) \o S_tga>>
       ELSE <<low>>

\* The candidates without the .tga to .jpg fallback.
Candidates_no_jpg_fallback(base) ==
    LET low == LowerStr(base)
    IN IF EndsWith(low, S_tga) THEN <<low>> ELSE CandidatesOf(low)

Candidates(base) == CandidatesOf(LowerStr(base))

\* find_in_set matching the base path as extracted, not lower-cased.
find_in_set_keepcase(base, s) ==
    LET cands == CandidatesOf(base)
        hits  == {i \in 1..Len(cands) : cands[i] \in s}
    IN IF hits = {} THEN None
       ELSE Some(cands[CHOOSE i \in hits : \A j \in hits : i <= j])

find_in_set(base, s) ==
    LET cands == Candidates(base)
        hits  == {i \in 1..Len(cands) : cands[i] \in s}
    IN IF hits = {} THEN None
       ELSE Some(cands[CHOOSE i \in hits : \A j \in hits : i <= j])

get_texture_folders(files) ==
    LET under == {f \in files : StartsWith(f, S_textures)}
    IN {S_textures \o Split(f, "/")[2] \o <<"/">> :
            f \in {g \in under : Len(Split(g, "/")) > 1}}

\* ------------------------------------------------------------ gather_deps

QUOTE == "\""

\* \s of the regular expressions, on the model's alphabet.
IsSpace(c) == c \in {" ", TAB, LF}

\* \w of the regular expressions.
IsWord(c) ==
    /\ c \notin {NUL, TAB, LF, XE9}
    /\ LET n == Ord(c)
       IN \/ (n >= 48 /\ n <= 57)
          \/ (n >= 65 /\ n <= 90)
          \/ (n >= 97 /\ n <= 122)
          \/ c = "_"

\* bytes.decode("ascii", "ignore") and, on the model's alphabet,
\* bytes.decode("utf-8", "ignore"): the bytes above 127 are dropped.
IsAsciiByte(c) == Ord(c) < 128
Decode(bytes) == SelectSeq(bytes, IsAsciiByte)

\* The least index >= i of t that holds no whitespace (Len(t) + 1 if none).
SkipSpace(t, i) ==
    LET stop == {j \in i..Len(t) : ~IsSpace(t[j])}
    IN IF stop = {} THEN Len(t) + 1 ELSE CHOOSE j \in stop : \A k \in stop : j <= k

\* The least index >= i of t that holds whitespace (Len(t) + 1 if none).
SkipNonSpace(t, i) ==
    LET stop == {j \in i..Len(t) : IsSpace(t[j])}
    IN IF stop = {} THEN Len(t) + 1 ELSE CHOOSE j \in stop : \A k \in stop : j <= k

\* The least index >= i of t that holds c (0 if none).
IndexFrom(t, c, i) ==
    LET at == {j \in i..Len(t) : t[j] = c}
    IN IF at = {} THEN 0 ELSE CHOOSE j \in at : \A k \in at : j <= k

\* Whether p occurs in t at index i.
OccursAt(t, p, i) == i + Len(p) - 1 <= Len(t) /\ SubSeq(t, i, i + Len(p) - 1) = p

NoMatch == [ok |-> FALSE, val |-> <<>>, end |-> 0]

\* re.match of "key"\s*"([^"]+)" at index i of the entities text: the
\* group and the index after the match.
EntMatchAt(key, t, i) ==
    LET lit == <<QUOTE>> \o key \o <<QUOTE>>
        j   == SkipSpace(t, i + Len(lit))
    IN IF OccursAt(t, lit, i) /\ j <= Len(t) /\ t[j] = QUOTE
       THEN LET k == IndexFrom(t, QUOTE, j + 1)
            IN IF k > j + 1
               THEN [ok |-> TRUE, val |-> SubSeq(t, j + 1, k - 1), end |-> k + 1]
               ELSE NoMatch
       ELSE NoMatch

\* The least element of a non-empty set of numbers.
Least(S) == CHOOSE x \in S : \A y \in S : x <= y

\* re.finditer: the groups of the non-overlapping matches, left to right,
\* each search starting where the previous match ended.
RECURSIVE EntFindIter(_, _, _)
EntFindIter(key, t, i) ==
    LET at == {j \in i..Len(t) : EntMatchAt(key, t, j).ok}
    IN IF at = {} THEN {}
       ELSE LET m == EntMatchAt(key, t, Least(at))
            IN {m.val} \cup EntFindIter(key, t, m.end)

\* Lump 0: the values the entity scan keeps.
EntsDeps(ents) ==
    LET found == UNION {EntFindIter(key, ents, 1) : key \in {S_model, S_model2, S_noise}}
    IN {p \in found : p # <<>> /\ p[1] # "*"}

\* Lump 1: the names of the texture records.
TextureName(field) ==
    LET head == SubSeq(field, 1, IF Len(field) < TexNameSize THEN Len(field) ELSE TexNameSize)
    IN Decode(Split(head, NUL)[1])

Textures(lump) ==
    LET count == lump.length \div TexRecSize
        names == {TextureName(IF i <= Len(lump.recs) THEN lump.recs[i] ELSE <<>>) :
                     i \in 1..count}
    IN {n \in names : n # <<>>}

\* The index of the */ that closes a /* at index i (0 if none).
BlockClose(t, i) ==
    LET close == {k \in (i + 2)..(Len(t) - 1) : t[k] = "*" /\ t[k + 1] = "/"}
    IN IF OccursAt(t, <<"/", "*">>, i) /\ close # {} THEN Least(close) ELSE 0

\* re.sub(r"/\*.*?\*/", "", text, flags=re.S)
RECURSIVE StripBlockComments(_)
StripBlockComments(t) ==
    LET at == {i \in 1..Len(t) : BlockClose(t, i) # 0}
    IN IF at = {} THEN t
       ELSE LET i == Least(at)
            IN SubSeq(t, 1, i - 1)
                 \o StripBlockComments(SubSeq(t, BlockClose(t, i) + 2, Len(t)))

\* re.sub(r"//.*", "", text)
RECURSIVE StripLineComments(_)
StripLineComments(t) ==
    LET at == {i \in 1..Len(t) : OccursAt(t, <<"/", "/">>, i)}
    IN IF at = {} THEN t
       ELSE LET i  == Least(at)
                nl == IndexFrom(t, LF, i)
            IN SubSeq(t, 1, i - 1)
                 \o (IF nl = 0 THEN <<>> ELSE StripLineComments(SubSeq(t, nl, Len(t))))

\* str.strip('"')
RECURSIVE StripQuotes(_)
StripQuotes(p) ==
    IF p = <<>> THEN p
    ELSE IF p[1] = QUOTE THEN StripQuotes(Tail(p))
    ELSE IF p[Len(p)] = QUOTE THEN StripQuotes(SubSeq(p, 1, Len(p) - 1))
    ELSE p

Directives == {S_qer_editorImage, S_map, S_clampMap, S_animMap}

\* re.match of \b(qer_editorImage|map|clampMap|animMap)\b\s+([^\s]+) at
\* index i: the path group and the index after the match.
DirMatchAt(t, i) ==
    LET kws == {kw \in Directives :
                   /\ OccursAt(t, kw, i)
                   /\ (i = 1 \/ ~IsWord(t[i - 1]))
                   /\ i + Len(kw) <= Len(t)
                   /\ IsSpace(t[i + Len(kw)])}
    IN IF kws = {} THEN NoMatch
       ELSE LET kw == CHOOSE k \in kws : TRUE
                j  == SkipSpace(t, i + Len(kw))
                e  == SkipNonSpace(t, j)
            IN IF j <= Len(t)
               THEN [ok |-> TRUE, val |-> SubSeq(t, j, e - 1), end |-> e]
               ELSE NoMatch

\* re.findall: the path groups of the non-overlapping matches.
RECURSIVE DirFindAll(_, _)
DirFindAll(t, i) ==
    LET at == {j \in i..Len(t) : DirMatchAt(t, j).ok}
    IN IF at = {} THEN {}
       ELSE LET m == DirMatchAt(t, Least(at))
            IN {m.val} \cup DirFindAll(t, m.end)

\* The dependencies of one shader script.
ShaderDeps(bytes) ==
    LET text  == StripLineComments(StripBlockComments(Decode(bytes)))
        paths == {StripQuotes(p) : p \in DirFindAll(text, 1)}
    IN {p \in paths :
           StartsWith(p, S_textures) \/ StartsWith(p, S_models) \/ StartsWith(p, S_sound)}

\* The BSP test on the name as listed, not lower-cased.
IsBspName_keepcase(e) == StartsWith(e.name, S_maps) /\ EndsWith(e.name, S_bsp)

IsBspName(e) ==
    StartsWith(LowerStr(e.name), S_maps) /\ EndsWith(LowerStr(e.name), S_bsp)

IsShaderName(e) ==
    StartsWith(LowerStr(e.name), S_scripts) /\ EndsWith(LowerStr(e.name), S_shader)

\* bsp_list: the BSP entries of the archive, in listing order.
BspList(z) == SelectSeq(z, IsBspName)

\* The lower-cased names of the map archive.
Files(z) == {LowerStr(z[i].name) : i \in 1..Len(z)}

\* gather_deps on an archive whose first BSP is valid: textures | ents_deps
\* | shader_deps.
GatherDeps(z) ==
    LET data == BspList(z)[1].data
        shader_deps == UNION {ShaderDeps(e.data.text) : e \in Range(SelectSeq(z, IsShaderName))}
    IN Textures(data.textures) \cup EntsDeps(Decode(data.entities)) \cup shader_deps

\* ------------------------------------------------------ archives on disk

\* The content of an archive entry (z.read), as the views the script takes
\* of it: data[:4], lump 1 (textures), lump 0 (entities) of a BSP, and the
\* whole content of a shader script.  The BSP is taken to hold its 17-lump
\* directory.
NoData ==
    [magic |-> <<>>, textures |-> [length |-> 0, recs |-> <<>>],
     entities |-> <<>>, text |-> <<>>, source |-> <<>>]

PlainFile(name) == [name |-> name, data |-> NoData]

RECURSIVE Concat(_)
Concat(q) == IF q = <<>> THEN <<>> ELSE Head(q) \o Concat(Tail(q))

\* The entities lump as the map compiler writes it: one block per entity,
\* one "key" "value" line per pair, and a terminating zero byte.
RenderPair(p) == <<QUOTE>> \o p[1] \o <<QUOTE, " ", QUOTE>> \o p[2] \o <<QUOTE, LF>>
RenderEntity(e) ==
    <<"{", LF>> \o Concat([i \in 1..Len(e) |-> RenderPair(e[i])]) \o <<"}", LF>>
RenderEnts(es) == Concat([i \in 1..Len(es) |-> RenderEntity(es[i])]) \o <<NUL>>

\* A BSP whose texture lump holds the records recs less its last cut bytes.
\* Its entities lump is written from the entities es of the map's source,
\* which the field source remembers.
BspFile(name, magic, recs, cut, es) ==
    [name |-> name,
     data |-> [magic |-> magic,
               textures |-> [length |-> TexRecSize * Len(recs) - cut, recs |-> recs],
               entities |-> RenderEnts(es), text |-> <<>>, source |-> es]]

ShaderFile(name, text) ==
    [name |-> name,
     data |-> [NoData EXCEPT !.magic = SubSeq(text, 1, IF Len(text) < 4 THEN Len(text) ELSE 4),
                             !.text = text]]

\* The name field of a texture record: the name and its terminator.
TexRec(name) == name \o <<NUL>>

\* Sequences over S of length at most n, and those without repetition.
SeqsUpTo(S, n) == UNION {[1..k -> S] : k \in 0..n}
DistinctSeqsUpTo(S, n) ==
    {q \in SeqsUpTo(S, n) : \A i, j \in 1..Len(q) : i # j => q[i] # q[j]}
SubsetsUpTo(S, n) == {T \in SUBSET S : Cardinality(T) <= n}

N_gfx_a == <<"g", "f", "x", "/", "a">>
N_GFX_A == <<"G", "F", "X", "/", "A">>
N_gfx_a_tga == <<"g", "f", "x", "/", "a", ".", "t", "g", "a">>
N_Gfx_A_JPG == <<"G", "f", "x", "/", "A", ".", "J", "P", "G">>
N_gfx_a_jpg == <<"g", "f", "x", "/", "a", ".", "j", "p", "g">>
N_GFX_A_TGA == <<"G", "F", "X", "/", "A", ".", "T", "G", "A">>
N_sound_x_wav == <<"s", "o", "u", "n", "d", "/", "x", ".", "w", "a", "v">>
N_sound_x_ogg == <<"s", "o", "u", "n", "d", "/", "x", ".", "o", "g", "g">>
N_sound_x_tga == <<"s", "o", "u", "n", "d", "/", "x", ".", "t", "g", "a">>
N_sound_x_jpg == <<"s", "o", "u", "n", "d", "/", "x", ".", "j", "p", "g">>
N_foo_bar == <<"t", "e", "x", "t", "u", "r", "e", "s", "/", "f", "o", "o", "/", "b", "a", "r">>
N_Foo_Bar == <<"T", "e", "x", "t", "u", "r", "e", "s", "/", "F", "O", "O", "/", "B", "a", "r">>
N_foo_bar_jpg == <<"t", "e", "x", "t", "u", "r", "e", "s", "/", "f", "o", "o", "/", "b", "a", "r", ".", "j", "p", "g">>
N_Caulk == <<"T", "e", "x", "t", "u", "r", "e", "s", "/", "C", "o", "m", "m", "o", "n", "/", "c", "a", "u", "l", "k">>
N_caulk == <<"t", "e", "x", "t", "u", "r", "e", "s", "/", "c", "o", "m", "m", "o", "n", "/", "c", "a", "u", "l", "k">>
N_caulk_tga == <<"t", "e", "x", "t", "u", "r", "e", "s", "/", "c", "o", "m", "m", "o", "n", "/", "c", "a", "u", "l", "k", ".", "t", "g", "a">>
N_NoShader == <<"N", "o", "S", "h", "a", "d", "e", "r">>
N_noshader_tga == <<"n", "o", "s", "h", "a", "d", "e", "r", ".", "t", "g", "a">>
N_notexture == <<"t", "e", "x", "t", "u", "r", "e", "s", "/", "r", "a", "d", "i", "a", "n", "t", "/", "n", "o", "t", "e", "x", "t", "u", "r", "e">>
N_notexture_jpg == <<"t", "e", "x", "t", "u", "r", "e", "s", "/", "r", "a", "d", "i", "a", "n", "t", "/", "n", "o", "t", "e", "x", "t", "u", "r", "e", ".", "j", "p", "g">>
N_v10_m == <<"m", "o", "d", "e", "l", "s", "/", "v", "1", ".", "0", "/", "m">>
N_m_md3 == <<"m", "o", "d", "e", "l", "s", "/", "m", ".", "m", "d", "3">>
N_foo_tga == <<"t", "e", "x", "t", "u", "r", "e", "s", "/", "f", "o", "o", ".", "t", "g", "a">>
N_textures_dir == <<"t", "e", "x", "t", "u", "r", "e", "s", "/">>
N_foo_tga_x == <<"t", "e", "x", "t", "u", "r", "e", "s", "/", "f", "o", "o", ".", "t", "g", "a", "/", "x">>
N_foo_z_jpg == <<"t", "e", "x", "t", "u", "r", "e", "s", "/", "f", "o", "o", "/", "z", ".", "j", "p", "g">>
N_maps_a_bsp == <<"m", "a", "p", "s", "/", "a", ".", "b", "s", "p">>
N_MAPS_B_BSP == <<"M", "A", "P", "S", "/", "B", ".", "B", "S", "P">>
N_maps_c_bsp == <<"m", "a", "p", "s", "/", "c", ".", "b", "s", "p">>
N_maps_readme == <<"m", "a", "p", "s", "/", "r", "e", "a", "d", "m", "e", ".", "t", "x", "t">>
N_a_shader == <<"s", "c", "r", "i", "p", "t", "s", "/", "a", ".", "s", "h", "a", "d", "e", "r">>
S_RBSP == <<"R", "B", "S", "P">>
K_classname == <<"c", "l", "a", "s", "s", "n", "a", "m", "e">>
V_a_md3 == <<"a", ".", "m", "d", "3">>
V_star3 == <<"*", "3">>
N_gfx_b == <<"g", "f", "x", "/", "b">>
T_shader1 == <<"t", "e", "x", "t", "u", "r", "e", "s", "/", "f", "o", "o", "/", "s", LF, "{", LF, TAB, "q", "e", "r", "_", "e", "d", "i", "t", "o", "r", "I", "m", "a", "g", "e", " ", "t", "e", "x", "t", "u", "r", "e", "s", "/", "f", "o", "o", "/", "e", "d", ".", "t", "g", "a", LF, TAB, "m", "a", "p", " ", "$", "l", "i", "g", "h", "t", "m", "a", "p", LF, TAB, "m", "a", "p", " ", "\"", "m", "o", "d", "e", "l", "s", "/", "m", ".", "j", "p", "g", "\"", " ", "/", "/", " ", "m", "a", "p", " ", "s", "o", "u", "n", "d", "/", "c", ".", "w", "a", "v", LF, TAB, "/", "*", " ", "c", "l", "a", "m", "p", "M", "a", "p", " ", "t", "e", "x", "t", "u", "r", "e", "s", "/", "x", ".", "t", "g", "a", LF, " ", "*", "/", " ", "a", "n", "i", "m", "M", "a", "p", " ", "2", " ", "s", "o", "u", "n", "d", "/", "q", ".", "w", "a", "v", LF, TAB, "m", "a", "p", " ", "t", "e", "x", "t", "u", "r", "e", "s", "/", "c", "o", "m", "m", "o", "n", "/", "c", "a", "u", "l", "k", ".", "t", "g", "a", LF, TAB, "x", "m", "a", "p", " ", "s", "o", "u", "n", "d", "/", "n", "o", ".", "w", "a", "v", LF, "}", LF>>
T_shader2 == <<"c", "l", "a", "m", "p", "M", "a", "p", TAB, "g", "f", "x", "/", "a", ".", "t", "g", "a", LF, "m", "a", "p", " ", "T", "e", "x", "t", "u", "r", "e", "s", "/", "U", ".", "t", "g", "a", LF, "/", "*", "/", " ", "m", "a", "p", " ", "s", "o", "u", "n", "d", "/", "r", ".", "w", "a", "v">>

\* ------------------------------------------------------------ the bounds

\* Entries of the map archive, in the runs that vary its listing.
MaxEntries == 3
\* Key/value pairs of the entities lump, in the runs that vary it.
MaxPairs == 2
\* Texture records of the BSP, in the runs that vary the bucket sizes.
MaxBig == 7
\* Members of the index, in the runs of find_in_set alone.
MaxSet == 2

\* ------------------------------------------------------------ the inputs

\* A valid BSP: three texture records, the last of them cut short.
DefaultBsp ==
    BspFile(N_maps_a_bsp, S_IBSP,
            <<TexRec(N_foo_bar), <<NUL, "z">>, TexRec(N_gfx_a)>>, 1,
            << << <<K_classname, K_classname>>, <<S_model2, N_m_md3>> >> >>)

\* A valid BSP with the given texture names and no entity.
BspOf(names) ==
    BspFile(N_maps_a_bsp, S_IBSP, [i \in 1..Len(names) |-> TexRec(names[i])], 0, <<>>)

NoPaks == [i \in 1..NumPointPaks |-> Absent]

World(z, demo, paks, full) == [map |-> z, demo |-> demo, paks |-> paks, full |-> full]

\* Entries a map archive may list.
EntryPool ==
    { DefaultBsp,
      BspFile(N_MAPS_B_BSP, S_RBSP, <<TexRec(N_gfx_a)>>, 0, <<>>),
      BspFile(N_maps_c_bsp, S_IBSP, <<TexRec(N_foo_tga_x), <<"g", "f", XE9, "x", "/", "a", NUL>> >>, 0, <<>>),
      PlainFile(N_maps_readme),
      PlainFile(N_foo_bar_jpg),
      PlainFile(N_foo_tga),
      PlainFile(N_textures_dir),
      ShaderFile(N_a_shader, T_shader1) }

\* The runs that vary the entities lump.
EntKeys == {K_classname, S_model, S_model2, S_noise}
EntValues == {V_a_md3, V_star3, S_model, <<>>}
EntsOf(pairs, split) ==
    IF split = 0 \/ Len(pairs) < 2 THEN <<pairs>>
    ELSE <<SubSeq(pairs, 1, 1), SubSeq(pairs, 2, Len(pairs))>>
EntityWorld(es) ==
    World(<<BspFile(N_maps_a_bsp, S_IBSP, <<>>, 0, es)>>, Absent, NoPaks, Absent)

\* The runs that vary the dependency and the four indices.
DepPool ==
    { N_gfx_a, N_GFX_A, N_gfx_a_tga, N_Gfx_A_JPG, N_sound_x_wav, N_foo_bar,
      N_Caulk, N_caulk, N_NoShader, N_notexture, S_lightmap, N_v10_m }
Listing1 == <<N_gfx_a_jpg, N_sound_x_ogg, N_notexture_jpg>>
Listing2 ==
    <<N_GFX_A_TGA, N_sound_x_wav, N_caulk_tga, N_foo_bar_jpg, N_noshader_tga, N_v10_m>>
Listing3 == <<N_gfx_a, N_sound_x_tga, N_sound_x_jpg>>
PakChoices == {Absent, Archive(Listing1), Archive(Listing2), Archive(Listing3)}
PaksChoices ==
    { NoPaks,
      [NoPaks EXCEPT ![1] = Archive(Listing1)],
      [NoPaks EXCEPT ![7] = Archive(Listing2)],
      [NoPaks EXCEPT ![2] = Archive(Listing3), ![3] = Archive(<<>>)],
      [NoPaks EXCEPT ![1] = Archive(Listing1), ![4] = Archive(Listing3)] }
MapExtras ==
    { <<>>, Listing1, Listing2, Listing3, <<N_caulk_tga>>, <<N_foo_z_jpg>> }
AsFiles(names) == [i \in 1..Len(names) |-> PlainFile(names[i])]
ClassifyWorld(ds, extra, demo, paks, full) ==
    World(<<BspOf(Sorted(ds))>> \o AsFiles(extra), demo, paks, full)

\* Dependencies that differ in case only.
CasePairs ==
    { {N_gfx_a, N_GFX_A}, {N_gfx_a_jpg, N_Gfx_A_JPG}, {N_Caulk, N_caulk},
      {N_NoShader, S_noshader}, {N_foo_bar, N_Foo_Bar} }

\* The dependency sets of these runs: none, one of the pool, or such a pair.
DepSets == {{}} \cup {{d} : d \in DepPool} \cup CasePairs

\* The runs that vary the sizes of the buckets: n dependencies gfx/b1 ..
\* gfx/bn, the first j of them in the demo archive, the first m in the full.
Big(i) == N_gfx_b \o <<Chr(48 + i)>>
BigNames(n) == [i \in 1..n |-> Big(i)]
BigFiles(n) == [i \in 1..n |-> Big(i) \o S_tga]
VerdictWorld(n, j, m) ==
    World(<<BspOf(BigNames(n))>>, Archive(BigFiles(j)), NoPaks, Archive(BigFiles(m)))

\* The runs of find_in_set alone: a base path made of a folder, a name and
\* an extension, and an index of files of that folder.
FindFolders == {<<>>, <<"d", "/">>, <<"d", ".", "e", "/">>}
FindNames == {<<"a">>, <<"A">>}
FindExts ==
    { <<>>, S_tga, S_jpg, <<".", "T", "G", "A">>, <<".", "w", "a", "v">>,
      S_tga \o S_jpg, <<".">> }
FindFileExts ==
    { <<>>, S_tga, S_jpg, <<".", "w", "a", "v">>, <<".", "o", "g", "g">>,
      S_tga \o S_tga, S_tga \o S_jpg, <<".", ".", "t", "g", "a">> }
FindFiles(folder) == {folder \o <<"a">> \o e : e \in FindFileExts}

\* -------------------------------------------------------------- the state

VARIABLES
    disk,             \* the archives on disk: map, demo, paks, full
    pc,               \* where the script is
    error,            \* the exception that ended it
    demo_files, full_files, patch_files,
    deps, map_files,  \* what gather_deps returned
    ents_deps,        \* gather_deps' entity-derived dependencies
    texture_folders,
    todo,             \* what is left of sorted(deps)
    found_map, found_demo, found_patch, found_full, missing,
    result,           \* the verdict printed
    call              \* a call of find_in_set on its own: base, s, the return

vars ==
    <<disk, pc, error, demo_files, full_files, patch_files, deps, map_files,
      ents_deps, texture_folders, todo, found_map, found_demo, found_patch,
      found_full, missing, result, call>>

buckets == <<found_map, found_demo, found_patch, found_full, missing>>
indices == <<demo_files, full_files, patch_files>>
gathered == <<deps, map_files, ents_deps>>

NoCall == [base |-> <<>>, s |-> {}, ret |-> None]

\* Nothing loaded, gathered or classified yet.
Fresh ==
    /\ error = ""
    /\ demo_files = {} /\ full_files = {} /\ patch_files = {}
    /\ deps = {} /\ map_files = {} /\ ents_deps = {}
    /\ texture_folders = {}
    /\ todo = <<>>
    /\ found_map = <<>> /\ found_demo = <<>> /\ found_patch = <<>>
    /\ found_full = <<>> /\ missing = <<>>
    /\ result = ""

Start(w) ==
    /\ disk = w
    /\ pc = "load"
    /\ call = NoCall
    /\ Fresh

\* The archives the runs start from: runs that vary the map archive's
\* listing, the entities lump, the dependency and the four indices, the
\* case of a dependency, and the sizes of the buckets.
Init ==
    \/ \E z \in DistinctSeqsUpTo(EntryPool, MaxEntries) :
          Start(World(z, Absent, NoPaks, Archive(<<N_m_md3, N_gfx_a_jpg>>)))
    \/ \E pairs \in SeqsUpTo(EntKeys \X EntValues, MaxPairs), split \in {0, 1} :
          Start(EntityWorld(EntsOf(pairs, split)))
    \/ \E ds \in DepSets, extra \in MapExtras,
          demo \in PakChoices, paks \in PaksChoices, full \in PakChoices :
          Start(ClassifyWorld(ds, extra, demo, paks, full))
    \/ \E n \in 0..MaxBig, j \in 0..MaxBig, m \in 0..MaxBig :
          Start(VerdictWorld(n, j, m))

\* ------------------------------------------------------------ the script

\* Load all archives (lines 82-86).
LoadArchives ==
    /\ pc = "load"
    /\ demo_files' = load_zip_list(disk.demo)
    /\ full_files' = load_zip_list(disk.full)
    /\ patch_files' = UNION {load_zip_list(disk.paks[i]) : i \in 1..NumPointPaks}
    /\ pc' = "gather"
    /\ UNCHANGED <<disk, error, gathered, texture_folders, todo, buckets, result, call>>

\* gather_deps raises: no BSP in the map archive.
GatherNoBsp ==
    /\ pc = "gather"
    /\ BspList(disk.map) = <<>>
    /\ pc' = "failed"
    /\ error' = "FileNotFoundError"
    /\ UNCHANGED <<disk, indices, gathered, texture_folders, todo, buckets, result, call>>

\* gather_deps raises: the first BSP does not start with IBSP.
GatherInvalidBsp ==
    /\ pc = "gather"
    /\ BspList(disk.map) # <<>>
    /\ BspList(disk.map)[1].data.magic # S_IBSP
    /\ pc' = "failed"
    /\ error' = "ValueError"
    /\ UNCHANGED <<disk, indices, gathered, texture_folders, todo, buckets, result, call>>

\* deps, map_files = gather_deps(MAP_PK3)
GatherOk ==
    /\ pc = "gather"
    /\ BspList(disk.map) # <<>>
    /\ BspList(disk.map)[1].data.magic = S_IBSP
    /\ deps' = GatherDeps(disk.map)
    /\ ents_deps' = EntsDeps(Decode(BspList(disk.map)[1].data.entities))
    /\ map_files' = Files(disk.map)
    /\ pc' = "folders"
    /\ UNCHANGED <<disk, error, indices, texture_folders, todo, buckets, result, call>>

\* texture_folders = get_texture_folders(map_files); the buckets start
\* empty and the loop starts on sorted(deps).
TextureFolders ==
    /\ pc = "folders"
    /\ texture_folders' = get_texture_folders(map_files)
    /\ found_map' = <<>> /\ found_demo' = <<>> /\ found_patch' = <<>>
    /\ found_full' = <<>> /\ missing' = <<>>
    /\ todo' = Sorted(deps)
    /\ pc' = "loop"
    /\ UNCHANGED <<disk, error, indices, gathered, result, call>>

\* The loop body with the full index consulted before the demo index.
Classify_full_before_demo(dep, folders, mapf, demof, patchf, fullf) ==
    IF LowerStr(dep) \in IGNORE_TERMS THEN "skip"
    ELSE IF should_ignore(dep) THEN "skip"
    ELSE IF \E folder \in folders : StartsWith(LowerStr(dep), folder) THEN "map"
    ELSE IF Truthy(find_in_set(dep, mapf)) THEN "map"
    ELSE IF Truthy(find_in_set(dep, fullf)) THEN "full"
    ELSE IF Truthy(find_in_set(dep, demof)) THEN "demo"
    ELSE IF Truthy(find_in_set(dep, patchf)) THEN "patch"
    ELSE "missing"

\* The loop body without the texture-folder shortcut.
Classify_no_shortcut(dep, folders, mapf, demof, patchf, fullf) ==
    IF LowerStr(dep) \in IGNORE_TERMS THEN "skip"
    ELSE IF should_ignore(dep) THEN "skip"
    ELSE IF Truthy(find_in_set(dep, mapf)) THEN "map"
    ELSE IF Truthy(find_in_set(dep, demof)) THEN "demo"
    ELSE IF Truthy(find_in_set(dep, patchf)) THEN "patch"
    ELSE IF Truthy(find_in_set(dep, fullf)) THEN "full"
    ELSE "missing"

\* The body of the classification loop: where dep goes.
Classify(dep, folders, mapf, demof, patchf, fullf) ==
    IF LowerStr(dep) \in IGNORE_TERMS THEN "skip"
    ELSE IF should_ignore(dep) THEN "skip"
    ELSE IF \E folder \in folders : StartsWith(LowerStr(dep), folder) THEN "map"
    ELSE IF Truthy(find_in_set(dep, mapf)) THEN "map"
    ELSE IF Truthy(find_in_set(dep, demof)) THEN "demo"
    ELSE IF Truthy(find_in_set(dep, patchf)) THEN "patch"
    ELSE IF Truthy(find_in_set(dep, fullf)) THEN "full"
    ELSE "missing"

\* The iteration whose found-in-full branch lacks its continue: the
\* dependency falls through to missing as well.
ClassifyStep_no_continue ==
    /\ pc = "loop"
    /\ todo # <<>>
    /\ LET dep == Head(todo)
           b == Classify(dep, texture_folders, map_files, demo_files, patch_files, full_files)
       IN /\ found_map'   = IF b = "map"     THEN Append(found_map, dep)   ELSE found_map
          /\ found_demo'  = IF b = "demo"    THEN Append(found_demo, dep)  ELSE found_demo
          /\ found_patch' = IF b = "patch"   THEN Append(found_patch, dep) ELSE found_patch
          /\ found_full'  = IF b = "full"    THEN Append(found_full, dep)  ELSE found_full
          /\ missing'     = IF b \in {"full", "missing"} THEN Append(missing, dep) ELSE missing
    /\ todo' = Tail(todo)
    /\ UNCHANGED <<disk, pc, error, indices, gathered, texture_folders, result, call>>

\* One iteration of the loop over sorted(deps).
ClassifyStep ==
    /\ pc = "loop"
    /\ todo # <<>>
    /\ LET dep == Head(todo)
           b == Classify(dep, texture_folders, map_files, demo_files, patch_files, full_files)
       IN /\ found_map'   = IF b = "map"     THEN Append(found_map, dep)   ELSE found_map
          /\ found_demo'  = IF b = "demo"    THEN Append(found_demo, dep)  ELSE found_demo
          /\ found_patch' = IF b = "patch"   THEN Append(found_patch, dep) ELSE found_patch
          /\ found_full'  = IF b = "full"    THEN Append(found_full, dep)  ELSE found_full
          /\ missing'     = IF b = "missing" THEN Append(missing, dep)     ELSE missing
    /\ todo' = Tail(todo)
    /\ UNCHANGED <<disk, pc, error, indices, gathered, texture_folders, result, call>>

\* The verdict with the middle band ending below 5.
Verdict_below_5(count_full) ==
    IF count_full = 0 THEN "YES"
    ELSE IF count_full < 5 THEN "PROBABLY"
    ELSE "NO"

\* The final verdict for count_full dependencies found in the full pak0.
Verdict(count_full) ==
    IF count_full = 0 THEN "YES"
    ELSE IF count_full <= 5 THEN "PROBABLY"
    ELSE "NO"

\* The report, once the loop is over (lines 189-231).
Report ==
    /\ pc = "loop"
    /\ todo = <<>>
    /\ result' = Verdict(Len(found_full))
    /\ pc' = "done"
    /\ UNCHANGED <<disk, error, indices, gathered, texture_folders, todo, buckets, call>>

Next ==
    \/ LoadArchives
    \/ GatherNoBsp
    \/ GatherInvalidBsp
    \/ GatherOk
    \/ TextureFolders
    \/ ClassifyStep
    \/ Report

Spec == Init /\ [][Next]_vars

\* ------------------------------------------------- find_in_set on its own

InitFind ==
    \E folder \in FindFolders, name \in FindNames, ext \in FindExts :
      \E s \in SubsetsUpTo(FindFiles(folder), MaxSet) :
        /\ disk = World(<<>>, Absent, NoPaks, Absent)
        /\ pc = "find"
        /\ call = [base |-> folder \o name \o ext, s |-> s, ret |-> None]
        /\ Fresh

\* ret = find_in_set(base, s)
FindInSetCall ==
    /\ pc = "find"
    /\ call' = [call EXCEPT !.ret = find_in_set(call.base, call.s)]
    /\ pc' = "found"
    /\ UNCHANGED <<disk, error, indices, gathered, texture_folders, todo, buckets, result>>

NextFind == FindInSetCall

SpecFind == InitFind /\ [][NextFind]_vars

\* ============================================================ the claims

BucketNames == {"map", "demo", "patch", "full", "missing"}

Bucket(b) ==
    CASE b = "map"     -> found_map
      [] b = "demo"    -> found_demo
      [] b = "patch"   -> found_patch
      [] b = "full"    -> found_full
      [] b = "missing" -> missing

\* How many times d occurs in the list q.
CountIn(q, d) == Cardinality({i \in 1..Len(q) : q[i] = d})

\* The buckets that list d.
BucketsOf(d) == {b \in BucketNames : CountIn(Bucket(b), d) > 0}

\* The ignore filters of the resolver, step 1: an ignore term, or an ignored
\* path prefix, on the lower-cased dependency.
Ignored(d) ==
    \/ LowerStr(d) \in {S_noshader, S_shadernotfound, S_lightmap, S_whiteimage, S_flareshader}
    \/ StartsWith(LowerStr(d), S_textures_common)
    \/ StartsWith(LowerStr(d), S_radiant_notex)

\* The texture-folder shortcut of the resolver, step 2.
Shortcut(d) == \E folder \in texture_folders : StartsWith(LowerStr(d), folder)

\* The candidates of the format-fallback match for B, in the order listed.
Stem(b) == SubSeq(b, 1, Len(b) - 4)
ListedCandidates(B) ==
    LET b == LowerStr(B)
        slashes == {i \in 1..Len(b) : b[i] = "/"}
        from == IF slashes = {} THEN 1 ELSE 1 + CHOOSE i \in slashes : \A j \in slashes : j <= i
        dotted == \E i \in from..Len(b) : b[i] = "."
    IN CASE ~dotted -> <<b \o S_tga, b \o S_jpg, b>>
         [] dotted /\ EndsWith(b, S_tga) -> <<b, Stem(b) \o S_jpg>>
         [] dotted /\ EndsWith(b, S_jpg) -> <<b, Stem(b) \o S_tga>>
         [] OTHER -> <<b>>

\* The format-fallback match of B against S succeeds.
Matches(B, S) == \E i \in 1..Len(ListedCandidates(B)) : ListedCandidates(B)[i] \in S

\* The first listed candidate of B that S holds.
FirstListed(B, S) ==
    LET c == ListedCandidates(B)
    IN c[CHOOSE i \in 1..Len(c) : c[i] \in S /\ \A j \in 1..(i - 1) : c[j] \notin S]

\* C1: once the classification loop has processed every dependency, each
\* dependency the ignore filters do not skip is listed exactly once, in
\* exactly one of the five buckets, each skipped dependency is listed in
\* none, and the buckets list nothing but dependencies.
C1_ExactlyOneBucket ==
    pc = "done" =>
        /\ \A d \in deps :
             IF Ignored(d)
             THEN \A b \in BucketNames : CountIn(Bucket(b), d) = 0
             ELSE /\ Cardinality(BucketsOf(d)) = 1
                  /\ \A b \in BucketsOf(d) : CountIn(Bucket(b), d) = 1
        /\ \A b \in BucketNames : Range(Bucket(b)) \subseteq deps

\* A finished run whose dependencies hold a skipped one and two that landed
\* in different buckets.
C1_Witness ==
    /\ pc = "done"
    /\ \E d \in deps : Ignored(d)
    /\ \E d, e \in deps : ~Ignored(d) /\ ~Ignored(e) /\ BucketsOf(d) # BucketsOf(e)

\* The bucket of the first index, in the order map, demo, patch, full, in
\* which the match of d succeeds.
ExpectedBucket(d) ==
    IF Matches(d, map_files) THEN "map"
    ELSE IF Matches(d, demo_files) THEN "demo"
    ELSE IF Matches(d, patch_files) THEN "patch"
    ELSE IF Matches(d, full_files) THEN "full"
    ELSE "missing"

\* C2: a dependency neither ignored nor caught by the texture-folder
\* shortcut lands in the bucket of the first index, in the order map, demo,
\* patch, full, in which the format-fallback match succeeds, and in missing
\* exactly when it fails in all four.
C2_FirstIndexWins ==
    pc = "done" =>
        \A d \in deps :
            (~Ignored(d) /\ ~Shortcut(d)) => BucketsOf(d) = {ExpectedBucket(d)}

\* A dependency that matches in the demo and in the full index, not in the
\* map's, and is found in demo.
C2_Witness ==
    /\ pc = "done"
    /\ \E d \in deps :
         /\ ~Ignored(d) /\ ~Shortcut(d)
         /\ ~Matches(d, map_files) /\ Matches(d, demo_files) /\ Matches(d, full_files)
         /\ BucketsOf(d) = {"demo"}

\* C3: find_in_set(B, S) succeeds exactly when S holds one of the listed
\* candidates of the lower-cased B, and returns the first of them in the
\* listed order; so a.tga resolves against an S that holds only a.jpg (and
\* the other way round), and a.wav never matches an S of a.ogg, a.tga and
\* a.jpg.
C3_FindInSet ==
    pc = "found" =>
        /\ call.ret.some <=> Matches(call.base, call.s)
        /\ call.ret.some => call.ret.val = FirstListed(call.base, call.s)
        /\ \A f \in FindFolders :
             /\ (call.base = f \o <<"a">> \o S_tga /\ call.s = {f \o <<"a">> \o S_jpg})
                    => call.ret = Some(f \o <<"a">> \o S_jpg)
             /\ (call.base = f \o <<"a">> \o S_jpg /\ call.s = {f \o <<"a">> \o S_tga})
                    => call.ret = Some(f \o <<"a">> \o S_tga)
             /\ ( /\ call.base = f \o <<"a", ".", "w", "a", "v">>
                  /\ call.s \subseteq {f \o <<"a", ".", "o", "g", "g">>,
                                       f \o <<"a">> \o S_tga, f \o <<"a">> \o S_jpg} )
                    => call.ret = None

\* find_in_set returned the second candidate of a base path without
\* extension, from an index that also holds the third.
C3_Witness ==
    /\ pc = "found"
    /\ call.base = <<"d", ".", "e", "/", "A">>
    /\ call.s = {<<"d", ".", "e", "/", "a">>, <<"d", ".", "e", "/", "a">> \o S_jpg}
    /\ call.ret = Some(<<"d", ".", "e", "/", "a">> \o S_jpg)

\* C4: the ignore filters apply to the lower-cased dependency and before
\* any matching: an ignored dependency is never listed in a bucket, whatever
\* the texture folders and the four indices hold.
C4_IgnoreFirst ==
    \A d \in deps : Ignored(d) => BucketsOf(d) = {}

\* Textures/Common/caulk skipped by a finished run although the map ships
\* a textures/common/ folder and the demo index holds its .tga.
C4_Witness ==
    /\ pc = "done"
    /\ N_Caulk \in deps
    /\ S_textures_common \in texture_folders
    /\ N_caulk_tga \in map_files
    /\ N_caulk_tga \in demo_files
    /\ BucketsOf(N_Caulk) = {}

\* C5: a dependency that is not ignored and starts, lower-cased, with one of
\* the map's texture-folder prefixes is found in map, whether or not any
\* index holds a candidate for it.
C5_TextureFolderShortcut ==
    pc = "done" =>
        \A d \in deps : (~Ignored(d) /\ Shortcut(d)) => BucketsOf(d) = {"map"}

\* textures/foo/bar found in map by the shortcut: the map index holds no
\* candidate for it and the full index does.
C5_Witness ==
    /\ pc = "done"
    /\ N_foo_bar \in deps
    /\ Shortcut(N_foo_bar)
    /\ ~Matches(N_foo_bar, map_files)
    /\ Matches(N_foo_bar, full_files)
    /\ BucketsOf(N_foo_bar) = {"map"}

\* C6: the verdict is decided by the number N of dependencies found in the
\* full pak0 alone: YES for N = 0, PROBABLY for 1 <= N <= 5, NO for N > 5.
C6_Verdict ==
    pc = "done" =>
        LET N == Len(found_full)
        IN /\ (N = 0 => result = "YES")
           /\ ((1 <= N /\ N <= 5) => result = "PROBABLY")
           /\ (N > 5 => result = "NO")

\* Six dependencies found in full, others in demo: the verdict is NO.
C6_Witness ==
    /\ pc = "done"
    /\ Len(found_full) = 6
    /\ Len(found_demo) > 0
    /\ result = "NO"

\* The entries of the map archive whose lower-cased path starts with maps/
\* and ends with .bsp, and the first of them in listing order.
IsBspEntry(i) ==
    LET n == LowerStr(disk.map[i].name)
    IN Len(n) >= 5 /\ SubSeq(n, 1, 5) = S_maps /\ SubSeq(n, Len(n) - 3, Len(n)) = S_bsp
BspEntries == {i \in 1..Len(disk.map) : IsBspEntry(i)}
FirstBspEntry == disk.map[CHOOSE i \in BspEntries : \A j \in BspEntries : i <= j]
NothingClassified ==
    /\ found_map = <<>> /\ found_demo = <<>> /\ found_patch = <<>>
    /\ found_full = <<>> /\ missing = <<>>
    /\ result = ""

\* C7: once gather_deps has run, a map archive without an entry maps/....bsp
\* (lower-cased) has ended the script with the no-BSP error, one whose first
\* such entry does not begin with IBSP has ended it with the invalid-BSP
\* error, in both cases with nothing classified and no verdict; nothing else
\* ends it, and an absent demo, full or patch archive leaves its index empty.
C7_BspErrorsAreFatal ==
    pc \notin {"load", "gather", "find", "found"} =>
        /\ BspEntries = {} =>
             (pc = "failed" /\ error = "FileNotFoundError" /\ NothingClassified)
        /\ (BspEntries # {} /\ FirstBspEntry.data.magic # S_IBSP) =>
             (pc = "failed" /\ error = "ValueError" /\ NothingClassified)
        /\ (BspEntries # {} /\ FirstBspEntry.data.magic = S_IBSP) =>
             (pc # "failed" /\ error = "")
        /\ ~disk.demo.exists => demo_files = {}
        /\ ~disk.full.exists => full_files = {}
        /\ (\A i \in 1..NumPointPaks : ~disk.paks[i].exists) => patch_files = {}

\* The invalid-BSP error on an archive whose first BSP entry, in upper case,
\* is not an IBSP file and whose second is, the demo archive being absent.
C7_Witness ==
    /\ pc = "failed"
    /\ error = "ValueError"
    /\ Cardinality(BspEntries) = 2
    /\ \E i \in BspEntries : disk.map[i].data.magic = S_IBSP
    /\ FirstBspEntry.name = N_MAPS_B_BSP
    /\ ~disk.demo.exists

\* The key/value pairs of the entities of the map.
EntityPairs ==
    LET es == FirstBspEntry.data.source
    IN UNION {Range(es[i]) : i \in 1..Len(es)}

\* C8: the entity-derived dependencies are exactly the non-empty values of
\* the keys model, model2 and noise of the map's entities that do not begin
\* with "*".
C8_EntityValues ==
    pc \in {"folders", "loop", "done"} =>
        ents_deps = {p[2] : p \in {x \in EntityPairs :
                                      /\ x[1] \in {S_model, S_model2, S_noise}
                                      /\ x[2] # <<>>
                                      /\ x[2][1] # "*"}}

\* The prefixes textures/<d>/, <d> not empty, that an entry of the map index
\* starts with.
FirstLevelFolders ==
    {S_textures \o d \o <<"/">> :
        d \in {Split(f, "/")[2] : f \in {g \in map_files :
                                           /\ StartsWith(g, S_textures)
                                           /\ Len(Split(g, "/")) >= 3}} \ {<<>>}}

\* C9: get_texture_folders returns exactly the prefixes textures/<d>/, <d>
\* not empty, that some entry of the map index starts with.
C9_TextureFolders ==
    pc \in {"loop", "done"} => texture_folders = FirstLevelFolders

\* C10: two dependencies that are equal once lower-cased have the same
\* outcome, both skipped or both in the same bucket, and each is listed
\* under its own spelling.
C10_CaseInsensitive ==
    pc = "done" =>
        \A d, e \in deps :
            LowerStr(d) = LowerStr(e) =>
                /\ BucketsOf(d) = BucketsOf(e)
                /\ (BucketsOf(d) = {}) <=> Ignored(d)

\* GFX/A and gfx/a, both found in demo under their own spellings.
C10_Witness ==
    /\ pc = "done"
    /\ {N_gfx_a, N_GFX_A} \subseteq deps
    /\ {N_gfx_a, N_GFX_A} \subseteq Range(found_demo)
    /\ Len(found_demo) = 2

====
